---- MODULE Spec2Model ----
(***************************************************************************)
(* Rooms.tsx: the room-list screen (RoomListDataContainer / RoomList) with *)
(* its subscription merge, and the room-creation form (RoomCreationForm).  *)
(***************************************************************************)
EXTENDS Integers, Sequences, FiniteSets, TLC

VARIABLES
    \* --- RoomListDataContainer / RoomList ---
    mounted,               \* the room-list screen is on the page
    loading,               \* useQuery's loading flag
    error,                 \* useQuery's error flag
    data,                  \* the query's data, [rooms |-> ...]; Null before a fetch
    subs,                  \* active subscribeToMore subscriptions
    lastSubscriptionData,  \* the roomChange the server pushed last
    lastPrevious,          \* `previous` of the latest updateQuery call for it
    lastOutcome,           \* what that call returned, or that it threw
    pending,               \* subscriptions that have yet to merge the pushed event
    merges,                \* updateQuery calls made so far for the pushed event
    \* --- RoomCreationForm ---
    expanded,              \* useState(false)
    mutationLoading,       \* useMutation's loading flag
    mutationError,         \* useMutation's error flag
    errors,                \* formState.errors: the fields that carry a message
    submitted,             \* the values of the last submit of the form
    variables,             \* the variables of the last createNewRoom call
    orphans,               \* createNewRoom calls pending from earlier mounts
    pushed                 \* the last path given to router.push

listVars == <<mounted, loading, error, data, subs,
              lastPrevious, lastSubscriptionData, lastOutcome, pending, merges>>
formVars == <<expanded, mutationLoading, mutationError, errors,
              submitted, variables, orphans, pushed>>
vars == <<mounted, loading, error, data, subs,
          lastPrevious, lastSubscriptionData, lastOutcome, pending, merges,
          expanded, mutationLoading, mutationError, errors,
          submitted, variables, orphans, pushed>>

----------------------------------------------------------------------------
\* Bounds of the model.
MaxRooms == 3      \* longest room list explored
MaxFetched == 2    \* longest list the initial fetch returns
MaxSubs == 3       \* most simultaneous subscriptions explored
MaxOrphans == 1    \* most createNewRoom calls left pending by earlier mounts

\* Program constants.
MinNameLen == 3
MaxNameLen == 60
MaxDescriptionLen == 500

\* null / undefined
Null == [null |-> TRUE]

----------------------------------------------------------------------------
\* The data of ROOM_LIST_QUERY and ROOM_LIST_SUBSCRIPTION.

RoomIds == {"1", "2"}
RoomNames == {"Gen", "General"}
Member == [user |-> [id |-> "u1", avatar |-> "a1.png", username |-> "ann"]]
MemberLists == {<<>>, <<Member>>}
\* The rooms explored: every id with and without a member under the first
\* name, and room "1" with a member under the second name too.
Room ==
    {r \in [id : RoomIds, name : RoomNames, members : MemberLists] :
        (r.name = "General") => (r.id = "1" /\ r.members # <<>>)}

\* roomChange payloads a well-behaved server sends: CREATE and UPDATE carry
\* the room, DELETE carries room_id and may or may not carry the room, and a
\* kind this client does not know is possible.
RoomChange ==
    {[event |-> k, room_id |-> r.id, room |-> r] :
        k \in {"CREATE", "UPDATE", "DELETE"}, r \in Room}
    \cup {[event |-> "DELETE", room_id |-> i, room |-> Null] : i \in RoomIds}
    \cup {[event |-> "ARCHIVE", room_id |-> r.id, room |-> r] :
            r \in {x \in Room : x.members = <<>>}}

\* What the subscription hands to updateQuery: a payload, or nothing.
SubscriptionData == RoomChange \cup {Null}

\* The lists the initial fetch can return: rooms with pairwise distinct ids.
FetchedRooms ==
    UNION {{s \in [1..n -> Room] :
                \A i \in 1..n : \A j \in 1..n : (i # j) => (s[i].id # s[j].id)} :
           n \in 0..MaxFetched}

----------------------------------------------------------------------------
\* updateQuery: (previous, { subscriptionData }) => merged query data.
\* Query data is an object with the field rooms, or Null when the query has
\* none. The result is [threw, value]: threw is TRUE when the call ends in a
\* TypeError, and value is the returned object otherwise.

Returned(value) == [threw |-> FALSE, value |-> value]
Threw(previous) == [threw |-> TRUE, value |-> previous]

\* [...previous.rooms, room] throws when the query has no data yet, so that
\* previous holds no rooms.
SpreadThrows(previous) == previous = Null

\* previous.rooms.filter and previous.rooms.map throw when previous holds no
\* rooms. Their callbacks read room.id of each cached room and
\* roomChange.room.id: with a cached room to visit, a null on either side
\* throws; with no cached room the callback never runs.
CallbackThrows(previous, change) ==
    \/ previous = Null
    \/ /\ Len(previous.rooms) > 0
       /\ \/ change.room = Null
          \/ \E i \in 1..Len(previous.rooms) : previous.rooms[i] = Null

\* updateQuery with a merge that de-duplicates on CREATE: a room whose id
\* is already cached is not appended.
updateQueryDeduplicating(previous, subscriptionData) ==
    IF subscriptionData = Null THEN Returned(previous)
    ELSE IF subscriptionData.event = "CREATE"
        THEN IF SpreadThrows(previous) THEN Threw(previous)
             ELSE IF \E i \in 1..Len(previous.rooms) :
                        previous.rooms[i].id = subscriptionData.room.id
             THEN Returned(previous)
             ELSE Returned([previous EXCEPT !.rooms =
                      Append(previous.rooms, subscriptionData.room)])
    ELSE IF subscriptionData.event = "DELETE"
        THEN IF CallbackThrows(previous, subscriptionData)
             THEN Threw(previous)
             ELSE Returned([previous EXCEPT !.rooms =
                      SelectSeq(previous.rooms,
                          LAMBDA room : room.id # subscriptionData.room.id)])
    ELSE IF subscriptionData.event = "UPDATE"
        THEN IF CallbackThrows(previous, subscriptionData)
             THEN Threw(previous)
             ELSE Returned([previous EXCEPT !.rooms =
                      [i \in 1..Len(previous.rooms) |->
                          IF previous.rooms[i].id = subscriptionData.room.id
                          THEN subscriptionData.room ELSE previous.rooms[i]]])
    ELSE Returned(previous)

\* updateQuery with an UPDATE that inserts the room when no cached room has
\* its id.
updateQueryUpserting(previous, subscriptionData) ==
    IF subscriptionData = Null THEN Returned(previous)
    ELSE IF subscriptionData.event = "CREATE"
        THEN IF SpreadThrows(previous) THEN Threw(previous)
             ELSE Returned([previous EXCEPT !.rooms =
                      Append(previous.rooms, subscriptionData.room)])
    ELSE IF subscriptionData.event = "DELETE"
        THEN IF CallbackThrows(previous, subscriptionData)
             THEN Threw(previous)
             ELSE Returned([previous EXCEPT !.rooms =
                      SelectSeq(previous.rooms,
                          LAMBDA room : room.id # subscriptionData.room.id)])
    ELSE IF subscriptionData.event = "UPDATE"
        THEN IF CallbackThrows(previous, subscriptionData)
             THEN Threw(previous)
             ELSE IF \E i \in 1..Len(previous.rooms) :
                        previous.rooms[i].id = subscriptionData.room.id
             THEN Returned([previous EXCEPT !.rooms =
                      [i \in 1..Len(previous.rooms) |->
                          IF previous.rooms[i].id = subscriptionData.room.id
                          THEN subscriptionData.room ELSE previous.rooms[i]]])
             ELSE Returned([previous EXCEPT !.rooms =
                      Append(previous.rooms, subscriptionData.room)])
    ELSE Returned(previous)

updateQuery(previous, subscriptionData) ==
    IF subscriptionData = Null THEN Returned(previous)
    ELSE IF subscriptionData.event = "CREATE"
        THEN IF SpreadThrows(previous) THEN Threw(previous)
             ELSE Returned([previous EXCEPT !.rooms =
                      Append(previous.rooms, subscriptionData.room)])
    ELSE IF subscriptionData.event = "DELETE"
        THEN IF CallbackThrows(previous, subscriptionData)
             THEN Threw(previous)
             ELSE Returned([previous EXCEPT !.rooms =
                      SelectSeq(previous.rooms,
                          LAMBDA room : room.id # subscriptionData.room.id)])
    ELSE IF subscriptionData.event = "UPDATE"
        THEN IF CallbackThrows(previous, subscriptionData)
             THEN Threw(previous)
             ELSE Returned([previous EXCEPT !.rooms =
                      [i \in 1..Len(previous.rooms) |->
                          IF previous.rooms[i].id = subscriptionData.room.id
                          THEN subscriptionData.room ELSE previous.rooms[i]]])
    ELSE Returned(previous)

\* The cache after one updateQuery call: a call that throws writes nothing.
Written(previous, subscriptionData) ==
    LET out == updateQuery(previous, subscriptionData)
    IN IF out.threw THEN previous ELSE out.value

----------------------------------------------------------------------------
\* RoomList: what the component renders.

View ==
    IF ~mounted THEN "Unmounted"
    ELSE IF loading THEN "Loading"
    ELSE IF error THEN "QueryFailed"
    ELSE IF Len(data.rooms) = 0 THEN "NoRooms"
    ELSE "Wrapper"

\* The cards inside the Wrapper.
Cards ==
    IF View = "Wrapper"
    THEN SelectSeq(data.rooms, LAMBDA room : Len(room.members) # 0)
    ELSE <<>>

----------------------------------------------------------------------------
\* RoomList actions.

\* The effect of useEffect(() => { roomUpdates(); }, [roomUpdates]): one more
\* subscribeToMore subscription; the function it returns is dropped. Every
\* render of the container passes a new roomUpdates, so every render runs it.
RoomUpdatesEffect(n) == n + 1

\* The screen is mounted. fetchPolicy "cache-first": data already fetched is
\* served from the cache, otherwise the query is sent.
Mount ==
    /\ ~mounted
    /\ subs < MaxSubs
    /\ mounted' = TRUE
    /\ loading' = (loading \/ error)
    /\ error' = FALSE
    /\ subs' = RoomUpdatesEffect(subs)
    /\ UNCHANGED <<data, lastPrevious, lastSubscriptionData, lastOutcome,
                   pending, merges>>
    /\ UNCHANGED formVars

\* The page renders the container again with nothing changed in the query.
Rerender ==
    /\ mounted
    /\ subs < MaxSubs
    /\ subs' = RoomUpdatesEffect(subs)
    /\ UNCHANGED <<mounted, loading, error, data,
                   lastPrevious, lastSubscriptionData, lastOutcome,
                   pending, merges>>
    /\ UNCHANGED formVars

\* The screen is unmounted. The effect registered no cleanup; the query's
\* own teardown ends the subscriptions made through its subscribeToMore.
Unmount ==
    /\ mounted
    /\ mounted' = FALSE
    /\ subs' = 0
    /\ pending' = 0
    /\ UNCHANGED <<loading, error, data,
                   lastPrevious, lastSubscriptionData, lastOutcome, merges>>
    /\ UNCHANGED formVars

\* The room fetch answers; the container renders the answer, and the render
\* runs the effect again.
FetchSucceeds(rooms) ==
    /\ mounted /\ loading
    /\ subs < MaxSubs
    /\ loading' = FALSE
    /\ data' = [rooms |-> rooms]
    /\ subs' = RoomUpdatesEffect(subs)
    /\ UNCHANGED <<mounted, error,
                   lastPrevious, lastSubscriptionData, lastOutcome,
                   pending, merges>>
    /\ UNCHANGED formVars

\* The room fetch fails; the container renders the failure, and the render
\* runs the effect again.
FetchFails ==
    /\ mounted /\ loading
    /\ subs < MaxSubs
    /\ loading' = FALSE
    /\ error' = TRUE
    /\ subs' = RoomUpdatesEffect(subs)
    /\ UNCHANGED <<mounted, data,
                   lastPrevious, lastSubscriptionData, lastOutcome,
                   pending, merges>>
    /\ UNCHANGED formVars

\* The server pushes one roomChange: each subscription active now is to run
\* its updateQuery on it.
Deliver(subscriptionData) ==
    /\ subs > 0
    /\ pending = 0
    /\ lastSubscriptionData' = subscriptionData
    /\ pending' = subs
    /\ merges' = 0
    /\ lastPrevious' = Null
    /\ lastOutcome' = Returned(Null)
    /\ UNCHANGED <<mounted, loading, error, data, subs>>
    /\ UNCHANGED formVars

\* One subscription merges the pushed roomChange: updateQuery runs on the
\* query's current data, whatever the query's state; what it returns is
\* written, and when that changes the data the container renders again,
\* which runs the effect again.
Merge ==
    /\ pending > 0
    /\ LET out == updateQuery(data, lastSubscriptionData)
           written == Written(data, lastSubscriptionData)
           rendered == written # data
       IN /\ (written # Null) => (Len(written.rooms) <= MaxRooms)
          /\ rendered => (subs < MaxSubs)
          /\ lastPrevious' = data
          /\ lastOutcome' = out
          /\ data' = written
          /\ subs' = IF rendered THEN RoomUpdatesEffect(subs) ELSE subs
    /\ pending' = pending - 1
    /\ merges' = merges + 1
    /\ UNCHANGED <<mounted, loading, error, lastSubscriptionData>>
    /\ UNCHANGED formVars

\* A card is clicked: router.push("/room/" + room.id).
ClickCard(i) ==
    /\ i \in 1..Len(Cards)
    /\ pushed' = <<"/room/", Cards[i].id>>
    /\ UNCHANGED listVars
    /\ UNCHANGED <<expanded, mutationLoading, mutationError, errors,
                   submitted, variables, orphans>>

----------------------------------------------------------------------------
\* RoomCreationForm. A form value stands for the strings typed into the two
\* fields by their lengths, which is all the schema reads; an untouched field
\* is the empty string.

NameLens == {0, MinNameLen - 1, MinNameLen, MaxNameLen, MaxNameLen + 1}
DescriptionLens == {0, MaxDescriptionLen, MaxDescriptionLen + 1}
FormValues == [name : NameLens, description : DescriptionLens]

\* The ids createRoom can answer with.
CreatedIds == {"42", "43"}

\* The schema with min(3) left off the name.
validateWithoutMin(values) ==
    {f \in {"name"} :
        \/ values.name = 0
        \/ values.name > MaxNameLen}
    \cup
    {f \in {"description"} : values.description > MaxDescriptionLen}

\* roomCreationFormValidationSchema through yupResolver: the fields that
\* fail their rule. required() rejects the empty string.
validate(values) ==
    {f \in {"name"} :
        \/ values.name = 0
        \/ values.name < MinNameLen
        \/ values.name > MaxNameLen}
    \cup
    {f \in {"description"} : values.description > MaxDescriptionLen}

\* The form is on the page: not replaced by the loading or failure text, and
\* the modal is open.
FormShown == expanded /\ ~mutationLoading /\ ~mutationError

\* The "New room" button and the form's X are on the page.
ToggleExpanded ==
    /\ ~mutationLoading /\ ~mutationError
    /\ expanded' = ~expanded
    /\ UNCHANGED <<mutationLoading, mutationError, errors, submitted,
                   variables, orphans, pushed>>
    /\ UNCHANGED listVars

\* The form is submitted: handleSubmit(onSubmit), where onSubmit is itself
\* handleSubmit(async (data) => ...). Each handleSubmit validates and goes on
\* only with no failing field; the callback collapses the form and then
\* calls createNewRoom.
Submit(values) ==
    /\ FormShown
    /\ submitted' = values
    /\ LET outer == validate(values)
           inner == validate(values)
       IN IF outer # {}
          THEN /\ errors' = outer
               /\ UNCHANGED <<expanded, mutationLoading, mutationError, variables>>
          ELSE IF inner # {}
          THEN /\ errors' = inner
               /\ UNCHANGED <<expanded, mutationLoading, mutationError, variables>>
          ELSE /\ errors' = {}
               /\ expanded' = FALSE
               /\ variables' = [name |-> values.name,
                                description |-> values.description]
               /\ mutationLoading' = TRUE
               /\ mutationError' = FALSE
    /\ UNCHANGED <<orphans, pushed>>
    /\ UNCHANGED listVars

\* createNewRoom resolves: router.push("/room/" + f.data.createRoom.id).
MutationSucceeds(id) ==
    /\ mutationLoading
    /\ mutationLoading' = FALSE
    /\ pushed' = <<"/room/", id>>
    /\ UNCHANGED <<expanded, mutationError, errors, submitted, variables, orphans>>
    /\ UNCHANGED listVars

\* createNewRoom rejects: the await throws and the callback ends there.
MutationFails ==
    /\ mutationLoading
    /\ mutationLoading' = FALSE
    /\ mutationError' = TRUE
    /\ UNCHANGED <<expanded, errors, submitted, variables, orphans, pushed>>
    /\ UNCHANGED listVars

\* The form component is mounted afresh: useState(false), a new useForm and
\* a new useMutation. The router outlives it, and so does a createNewRoom
\* call the old mount was awaiting.
FormRemount ==
    /\ mutationLoading => (orphans < MaxOrphans)
    /\ orphans' = IF mutationLoading THEN orphans + 1 ELSE orphans
    /\ expanded' = FALSE
    /\ mutationLoading' = FALSE
    /\ mutationError' = FALSE
    /\ errors' = {}
    /\ submitted' = Null
    /\ variables' = Null
    /\ UNCHANGED pushed
    /\ UNCHANGED listVars

\* A createNewRoom call of an earlier mount resolves: its callback goes on
\* to router.push; the mount on the page is not touched.
OrphanSucceeds(id) ==
    /\ orphans > 0
    /\ orphans' = orphans - 1
    /\ pushed' = <<"/room/", id>>
    /\ UNCHANGED <<expanded, mutationLoading, mutationError, errors,
                   submitted, variables>>
    /\ UNCHANGED listVars

\* A createNewRoom call of an earlier mount rejects: its callback ends.
OrphanFails ==
    /\ orphans > 0
    /\ orphans' = orphans - 1
    /\ UNCHANGED <<expanded, mutationLoading, mutationError, errors,
                   submitted, variables, pushed>>
    /\ UNCHANGED listVars

----------------------------------------------------------------------------
ListInit ==
    /\ mounted = FALSE
    /\ loading = TRUE
    /\ error = FALSE
    /\ data = Null
    /\ subs = 0
    /\ lastSubscriptionData = Null
    /\ lastPrevious = Null
    /\ lastOutcome = Returned(Null)
    /\ pending = 0
    /\ merges = 0

FormInit ==
    /\ expanded = FALSE
    /\ mutationLoading = FALSE
    /\ mutationError = FALSE
    /\ errors = {}
    /\ submitted = Null
    /\ variables = Null
    /\ orphans = 0
    /\ pushed = Null

Init == ListInit /\ FormInit

Next ==
    \/ Mount
    \/ Rerender
    \/ Unmount
    \/ \E rooms \in FetchedRooms : FetchSucceeds(rooms)
    \/ FetchFails
    \/ \E subscriptionData \in SubscriptionData : Deliver(subscriptionData)
    \/ Merge
    \/ \E i \in 1..MaxRooms : ClickCard(i)

Spec == Init /\ [][Next]_vars

FormNext ==
    \/ ToggleExpanded
    \/ \E values \in FormValues : Submit(values)
    \/ \E id \in CreatedIds : MutationSucceeds(id)
    \/ MutationFails
    \/ FormRemount
    \/ \E id \in CreatedIds : OrphanSucceeds(id)
    \/ OrphanFails

FormSpec == Init /\ [][FormNext]_vars

----------------------------------------------------------------------------
\* Properties of the room list.

\* An updateQuery call has merged the pushed event into a cache, that is
\* into query data that holds a room list.
MergedIntoCache == merges > 0 /\ lastPrevious # Null

\* That event was of this kind.
LastWas(kind) ==
    /\ MergedIntoCache
    /\ lastSubscriptionData # Null
    /\ lastSubscriptionData.event = kind

HasId(rooms, id) == \E i \in 1..Len(rooms) : rooms[i].id = id

\* C1: after any sequence of CREATE/UPDATE/DELETE events merged into a cache
\* fetched with pairwise distinct ids, no two cached rooms share an id.
C1_UniqueIds ==
    (data # Null) =>
    \A i \in 1..Len(data.rooms) : \A j \in 1..Len(data.rooms) :
        (i # j) => (data.rooms[i].id # data.rooms[j].id)

\* C2: a DELETE merge returns the cache without any room whose id is the
\* event's room_id, the other rooms unchanged and in order (so the cache
\* itself when no room has that id).
C2_DeleteRemovesRoomId ==
    LastWas("DELETE") =>
        /\ ~lastOutcome.threw
        /\ ~HasId(lastOutcome.value.rooms, lastSubscriptionData.room_id)
        /\ lastOutcome.value.rooms =
              SelectSeq(lastPrevious.rooms,
                        LAMBDA room : room.id # lastSubscriptionData.room_id)

\* C3: the merge never throws on a well-formed event: every updateQuery call
\* on a cache returns a cache value.
C3_MergeIsTotal == MergedIntoCache => ~lastOutcome.threw

\* C5: at most one subscription is active while the screen is mounted and
\* none after it is unmounted, so an event is merged exactly once.
C5_OneSubscription ==
    /\ mounted => subs <= 1
    /\ ~mounted => subs = 0
    /\ merges <= 1

\* C6: an UPDATE merge returns a cache of the same length in which the rooms
\* with the event room's id are the event's room, at the same index, and
\* every other room is unchanged; with no such room it returns the cache as
\* it was.
C6_UpdateReplacesInPlace ==
    LastWas("UPDATE") =>
        /\ ~lastOutcome.threw
        /\ Len(lastOutcome.value.rooms) = Len(lastPrevious.rooms)
        /\ \A i \in 1..Len(lastPrevious.rooms) :
              lastOutcome.value.rooms[i] =
                 IF lastPrevious.rooms[i].id = lastSubscriptionData.room.id
                 THEN lastSubscriptionData.room
                 ELSE lastPrevious.rooms[i]
        /\ ~HasId(lastPrevious.rooms, lastSubscriptionData.room.id)
              => lastOutcome.value.rooms = lastPrevious.rooms

\* An UPDATE replaced a room in the middle of its neighbours, and an UPDATE
\* for an id that is not cached was dropped.
C6_Witness ==
    /\ LastWas("UPDATE")
    /\ \/ /\ Len(lastPrevious.rooms) >= 2
          /\ HasId(lastPrevious.rooms, lastSubscriptionData.room.id)
          /\ \E i \in 1..Len(lastPrevious.rooms) :
                lastPrevious.rooms[i].id # lastSubscriptionData.room.id
          /\ lastOutcome.value.rooms # lastPrevious.rooms
          /\ data.rooms = lastOutcome.value.rooms
       \/ /\ Len(lastPrevious.rooms) >= 1
          /\ ~HasId(lastPrevious.rooms, lastSubscriptionData.room.id)
          /\ data.rooms = lastPrevious.rooms

\* C7: a CREATE merge returns a cache one longer, whose first rooms are the
\* cache's in order and whose last room is the event's room, whether or not
\* its id was cached already.
C7_CreateAppends ==
    LastWas("CREATE") =>
        /\ ~lastOutcome.threw
        /\ Len(lastOutcome.value.rooms) = Len(lastPrevious.rooms) + 1
        /\ SubSeq(lastOutcome.value.rooms, 1, Len(lastPrevious.rooms)) = lastPrevious.rooms
        /\ lastOutcome.value.rooms[Len(lastOutcome.value.rooms)] = lastSubscriptionData.room

\* A CREATE for an id already cached was appended to a non-empty cache.
C7_Witness ==
    /\ LastWas("CREATE")
    /\ Len(lastPrevious.rooms) >= 1
    /\ HasId(lastPrevious.rooms, lastSubscriptionData.room.id)
    /\ data.rooms = Append(lastPrevious.rooms, lastSubscriptionData.room)

\* C8: a Ready screen shows the Empty view exactly when no cached room has a
\* member, and the populated view otherwise.
C8_EmptyViewIffNothingToShow ==
    (mounted /\ ~loading /\ ~error) =>
        /\ View \in {"NoRooms", "Wrapper"}
        /\ (View = "NoRooms") <=>
              (\A i \in 1..Len(data.rooms) : Len(data.rooms[i].members) = 0)

\* C9: a room with no member is never among the cards, while it stays in the
\* cache and a later UPDATE or DELETE for its id still acts on it: the
\* UPDATE replaces it, the DELETE removes it.
C9_MemberlessRoomHiddenButLive ==
    /\ \A i \in 1..Len(Cards) : Len(Cards[i].members) # 0
    /\ MergedIntoCache =>
       \A i \in 1..Len(lastPrevious.rooms) :
          (/\ lastSubscriptionData # Null
           /\ Len(lastPrevious.rooms[i].members) = 0
           /\ lastSubscriptionData.room_id = lastPrevious.rooms[i].id)
          => /\ (lastSubscriptionData.event = "UPDATE") =>
                   /\ ~lastOutcome.threw
                   /\ lastOutcome.value.rooms[i] = lastSubscriptionData.room
             /\ (lastSubscriptionData.event = "DELETE") =>
                   /\ ~lastOutcome.threw
                   /\ ~HasId(lastOutcome.value.rooms, lastPrevious.rooms[i].id)
                   /\ ~HasId(data.rooms, lastPrevious.rooms[i].id)

----------------------------------------------------------------------------
\* Properties of the room-creation form.

\* The field rules, as the form's contract states them.
NameRule(values) == values.name >= 3 /\ values.name <= 60
DescriptionRule(values) == values.description <= 500
FieldRules(values) == NameRule(values) /\ DescriptionRule(values)

\* C4: when the create-room mutation of a validated submit fails, nothing is
\* pushed to the router and the form is still expanded.
C4_FailureKeepsFormOpen ==
    [][(mutationLoading /\ mutationError') =>
          (expanded' /\ pushed' = pushed)]_vars

\* C10: a submit whose values break a field rule issues no mutation,
\* collapses nothing and navigates nowhere, and every mutation issued
\* carries values that satisfy all the rules.
C10_InvalidNeverSubmitted ==
    /\ [](variables # Null => FieldRules(variables))
    /\ [][\A values \in FormValues :
            (Submit(values) /\ ~FieldRules(values)) =>
               /\ expanded' = expanded
               /\ variables' = variables
               /\ mutationLoading' = mutationLoading
               /\ pushed' = pushed]_vars

\* A two-character name was submitted: the name field carries an error, the
\* form is still open and no mutation was issued.
C10_Witness ==
    /\ submitted # Null
    /\ submitted.name = 2
    /\ errors = {"name"}
    /\ expanded
    /\ ~mutationLoading
    /\ variables = Null

====
